---- MODULE Spec2Model ----
(***************************************************************************)
(* Model of shuftlib's Tressette trick core (src/shuftlib/src/tressette.rs)*)
(* PlayerId, TressetteCard and its ordering, OngoingTrick::new/play/finish *)
(* and Trick.                                                              *)
(*                                                                         *)
(* Option<T> is modelled as a sequence: None is <<>>, Some(x) is <<x>>.    *)
(* A PlayerId is modelled by the usize it wraps.                           *)
(***************************************************************************)
EXTENDS Integers, Sequences, FiniteSets, TLC

VARIABLES
    trick,        \* the OngoingTrick: [cards, first_to_play, next_to_play]
    plays,        \* the play calls made on it so far: <<[card, ret]>>
    ret_finish,   \* Some(return value) of the latest finish call since the last play
    prev_finish,  \* Some(return value) of the finish call before that one
    value,        \* the usize handed to the PlayerId constructors
    id_new,       \* Some(return value) of PlayerId::new(value), once called
    id_try,       \* Some(return value) of PlayerId::try_from(value), once called
    pid,          \* Some(the PlayerId under inc), once constructed
    pid0,         \* Some(its value when it was constructed)
    incs,         \* the number of inc calls made on pid
    cmp_self,     \* the card Ord::cmp is called on
    cmp_other,    \* the card it is compared with
    ret_cmp,      \* Some(return value) of cmp_self.cmp(&cmp_other), once called
    d_pc,         \* where the match driver stands
    score,        \* the driver's score, one entry per side
    score_to_win, \* the SCORE_TO_WIN the driver was built with
    trick_id,     \* the driver's for trick_id in 0..TRICKS
    player_count  \* the driver's for player_count in 0..PLAYERS

trickVars == <<trick, plays, ret_finish, prev_finish>>
idVars == <<value, id_new, id_try, pid, pid0, incs>>
cmpVars == <<cmp_self, cmp_other, ret_cmp>>
driverVars == <<d_pc, score, score_to_win, trick_id, player_count>>
vars == <<trick, plays, ret_finish, prev_finish, value, id_new, id_try, pid, pid0, incs,
          cmp_self, cmp_other, ret_cmp, d_pc, score, score_to_win, trick_id, player_count>>

----
(* Bounds of the model *)

\* the cards in play are the first NumCards cards of the deck, the deck listing
\* the first DeckRanks ranks of each suit, suit after suit
NumCards == 6
DeckRanks == 4
\* the number of play calls made on one OngoingTrick
MaxPlays == 5
\* the largest usize handed to a PlayerId constructor
MaxValue == 7
\* the number of inc calls made on one PlayerId
MaxIncs == 9
\* the largest SCORE_TO_WIN the driver is built with
MaxScoreToWin == 3

----
(* Option and Result *)

None == <<>>
Some(x) == <<x>>
IsSome(o) == o # <<>>
Unwrap(o) == o[1]

Ok(x) == <<"Ok", x>>
Err == <<"Err">>

----
(* Cards *)

\* the ranks and suits, in the order the tests' strategies list them
RankUniverse == <<"Ace", "Two", "Three", "Four", "Five", "Six", "Seven", "Jack", "Knight", "King">>
SuitUniverse == <<"Hearts", "Clubs", "Spades", "Diamonds">>

TressetteCard_new(rank, suit) == [rank |-> rank, suit |-> suit]

\* the k-th card of the deck, k = 0, 1, ...
DeckCard(k) ==
    TressetteCard_new(RankUniverse[(k % DeckRanks) + 1], SuitUniverse[(k \div DeckRanks) + 1])

Cards == {DeckCard(k) : k \in 0..(NumCards - 1)}

rank(card) == card.rank
suit(card) == card.suit

\* all 40 cards
FullDeck ==
    {TressetteCard_new(RankUniverse[i], SuitUniverse[j]) :
        i \in 1..Len(RankUniverse), j \in 1..Len(SuitUniverse)}

\* the array of Ord::cmp written in the order of the card faces, Ace first
rank_order_by_face == <<"Ace", "Two", "Three", "Four", "Five", "Six", "Seven", "Jack", "Knight", "King">>

\* the array of Ord::cmp
rank_order == <<"Four", "Five", "Six", "Seven", "Jack", "Knight", "King", "Ace", "Two", "Three">>

\* iter().position(): the 0-based index of the first element equal to r
RECURSIVE position(_, _, _)
position(arr, r, i) ==
    IF i > Len(arr) THEN None
    ELSE IF arr[i] = r THEN Some(i - 1)
    ELSE position(arr, r, i + 1)

\* whether one of the two expect() calls of Ord::cmp panics
cmp_panics(self, other) ==
    \/ position(rank_order, rank(self), 1) = None
    \/ position(rank_order, rank(other), 1) = None

\* Ord::cmp: the rank indexes compared, the suits ignored
cmp(self, other) ==
    LET self_rank_index == Unwrap(position(rank_order, rank(self), 1))
        other_rank_index == Unwrap(position(rank_order, rank(other), 1))
    IN  IF self_rank_index < other_rank_index THEN "Less"
        ELSE IF self_rank_index > other_rank_index THEN "Greater"
        ELSE "Equal"

----
(* PlayerId *)

PLAYERS == 4
Seats == 0..(PLAYERS - 1)

\* inc with the wrap test off by one: 3 goes to 4
inc_wraps_late(self) == IF self < 4 THEN self + 1 ELSE 0

inc(self) == IF self < 3 THEN self + 1 ELSE 0

\* PlayerId::new with <= for <
PlayerId_new_le(v) == IF v <= 4 THEN Some(v) ELSE None

PlayerId_new(v) == IF v < 4 THEN Some(v) ELSE None

\* try_from with the range closed at 4
try_from_le(v) == IF v \in 0..4 THEN Ok(v) ELSE Err

try_from(v) == IF v \in 0..3 THEN Ok(v) ELSE Err

\* derive(Default) on PlayerId(usize)
PlayerId_default == 0

\* the PlayerIds the three constructors give on the values up to MaxValue
BuiltPlayerIds ==
    {PlayerId_default}
        \cup {Unwrap(PlayerId_new(v)) : v \in {w \in 0..MaxValue : IsSome(PlayerId_new(w))}}
        \cup {try_from(v)[2] : v \in {w \in 0..MaxValue : try_from(w)[1] = "Ok"}}

----
(* OngoingTrick *)

\* OngoingTrick::new leaving next_to_play at its default
OngoingTrick_new_next_default(first_to_play) ==
    [cards |-> [i \in Seats |-> None],
     first_to_play |-> first_to_play,
     next_to_play |-> 0]

OngoingTrick_new(first_to_play) ==
    [cards |-> [i \in Seats |-> None],
     first_to_play |-> first_to_play,
     next_to_play |-> first_to_play]

\* self.cards.contains(&Some(card))
contains(cards, x) == \E i \in Seats : cards[i] = x

\* play without the duplicate test
play_unchecked(self, card) ==
    [self |-> [self EXCEPT !.cards[self.next_to_play] = Some(card),
                           !.next_to_play = inc(self.next_to_play)],
     ret |-> "Ok"]

\* play that moves on to the next seat before it bails
play_err_advances(self, card) ==
    IF contains(self.cards, Some(card))
    THEN [self |-> [self EXCEPT !.next_to_play = inc(self.next_to_play)], ret |-> "Err"]
    ELSE [self |-> [self EXCEPT !.cards[self.next_to_play] = Some(card),
                                !.next_to_play = inc(self.next_to_play)],
          ret |-> "Ok"]

\* play that looks for the card in the slot it is about to write only
play_checks_next_slot(self, card) ==
    IF self.cards[self.next_to_play] = Some(card)
    THEN [self |-> self, ret |-> "Err"]
    ELSE [self |-> [self EXCEPT !.cards[self.next_to_play] = Some(card),
                                !.next_to_play = inc(self.next_to_play)],
          ret |-> "Ok"]

\* play that also turns down a card that does not follow the leader's suit
play_must_follow_suit(self, card) ==
    IF contains(self.cards, Some(card))
    THEN [self |-> self, ret |-> "Err"]
    ELSE IF /\ IsSome(self.cards[self.first_to_play])
            /\ suit(Unwrap(self.cards[self.first_to_play])) # suit(card)
    THEN [self |-> self, ret |-> "Err"]
    ELSE [self |-> [self EXCEPT !.cards[self.next_to_play] = Some(card),
                                !.next_to_play = inc(self.next_to_play)],
          ret |-> "Ok"]

\* play(&mut self, card): the OngoingTrick afterwards and the returned Result
play(self, card) ==
    IF contains(self.cards, Some(card))
    THEN [self |-> self, ret |-> "Err"]
    ELSE [self |-> [self EXCEPT !.cards[self.next_to_play] = Some(card),
                                !.next_to_play = inc(self.next_to_play)],
          ret |-> "Ok"]

\* the .any(|is_some| !is_some) of finish: some slot is None
any_none(self) == \E i \in Seats : self.cards[i] = None

\* min_by_key for max_by_key: the first of the least elements is kept
RECURSIVE min_by_key(_, _, _, _)
min_by_key(cards, leading_suit, i, best) ==
    IF i >= PLAYERS THEN best
    ELSE IF suit(cards[i]) # leading_suit
         THEN min_by_key(cards, leading_suit, i + 1, best)
    ELSE IF best = None
         THEN min_by_key(cards, leading_suit, i + 1, Some(i))
    ELSE IF cmp(cards[Unwrap(best)], cards[i]) = "Greater"
         THEN min_by_key(cards, leading_suit, i + 1, Some(i))
    ELSE min_by_key(cards, leading_suit, i + 1, best)

\* the filter inverted: the cards that are not of the leading suit are kept
RECURSIVE max_by_key_off_suit(_, _, _, _)
max_by_key_off_suit(cards, leading_suit, i, best) ==
    IF i >= PLAYERS THEN best
    ELSE IF suit(cards[i]) = leading_suit
         THEN max_by_key_off_suit(cards, leading_suit, i + 1, best)
    ELSE IF best = None
         THEN max_by_key_off_suit(cards, leading_suit, i + 1, Some(i))
    ELSE IF cmp(cards[Unwrap(best)], cards[i]) = "Greater"
         THEN max_by_key_off_suit(cards, leading_suit, i + 1, best)
    ELSE max_by_key_off_suit(cards, leading_suit, i + 1, Some(i))

\* max_by_key over all four cards, the filter on the leading suit left out
RECURSIVE max_by_key_no_filter(_, _, _, _)
max_by_key_no_filter(cards, leading_suit, i, best) ==
    IF i >= PLAYERS THEN best
    ELSE IF best = None
         THEN max_by_key_no_filter(cards, leading_suit, i + 1, Some(i))
    ELSE IF cmp(cards[Unwrap(best)], cards[i]) = "Greater"
         THEN max_by_key_no_filter(cards, leading_suit, i + 1, best)
    ELSE max_by_key_no_filter(cards, leading_suit, i + 1, Some(i))

\* the filter on the leading suit and max_by_key of finish, as the fold the
\* iterator runs: a later element replaces the best one unless the best one
\* compares Greater, so of several equally maximal elements the last is kept
RECURSIVE max_by_key(_, _, _, _)
max_by_key(cards, leading_suit, i, best) ==
    IF i >= PLAYERS THEN best
    ELSE IF suit(cards[i]) # leading_suit
         THEN max_by_key(cards, leading_suit, i + 1, best)
    ELSE IF best = None
         THEN max_by_key(cards, leading_suit, i + 1, Some(i))
    ELSE IF cmp(cards[Unwrap(best)], cards[i]) = "Greater"
         THEN max_by_key(cards, leading_suit, i + 1, best)
    ELSE max_by_key(cards, leading_suit, i + 1, Some(i))

\* finish reading the leading suit from slot 0, whoever played first
finish_leads_from_slot_zero(self) ==
    IF any_none(self) THEN None
    ELSE LET cards == [i \in Seats |-> Unwrap(self.cards[i])]
             leading_suit == suit(cards[0])
             found == max_by_key(cards, leading_suit, 0, None)
         IN  IF IsSome(found)
             THEN Some([cards |-> cards, taker |-> Unwrap(found)])
             ELSE None

\* finish(self) -> Option<Trick>. The local cards array starts as four default
\* cards and is only read once every slot was found to be Some.
finish(self) ==
    IF any_none(self) THEN None
    ELSE LET cards == [i \in Seats |-> Unwrap(self.cards[i])]
             leading_suit == suit(cards[self.first_to_play])
             found == max_by_key(cards, leading_suit, 0, None)
         IN  IF IsSome(found)
             THEN Some([cards |-> cards, taker |-> Unwrap(found)])
             ELSE None

\* finish moving the cards out of the slots, as Option::take would
finish_self_take(self) == [self EXCEPT !.cards = [i \in Seats |-> None]]

\* finish takes self by value and OngoingTrick is Copy: the caller's value
\* after the call
finish_self(self) == self

\* Trick
taken_with(t) == t.cards[t.taker]
taker(t) == t.taker

----
(* The trick under play: OngoingTrick::new(s), then play and finish calls *)

InitId ==
    /\ value = 0
    /\ id_new = None
    /\ id_try = None
    /\ pid = None
    /\ pid0 = None
    /\ incs = 0

\* the other parts of the state, at rest
InitCmp ==
    /\ cmp_self = TressetteCard_new("Ace", "Hearts")
    /\ cmp_other = TressetteCard_new("Ace", "Hearts")
    /\ ret_cmp = None

InitDriver ==
    /\ d_pc = "while"
    /\ score = <<0, 0>>
    /\ score_to_win = 1
    /\ trick_id = 0
    /\ player_count = 0

InitTrick ==
    /\ trick = OngoingTrick_new(0)
    /\ plays = <<>>
    /\ ret_finish = None
    /\ prev_finish = None

Init ==
    /\ \E p \in BuiltPlayerIds : trick = OngoingTrick_new(p)
    /\ plays = <<>>
    /\ ret_finish = None
    /\ prev_finish = None
    /\ InitId
    /\ InitCmp
    /\ InitDriver

Play ==
    /\ Len(plays) < MaxPlays
    /\ \E card \in Cards :
          LET r == play(trick, card)
          IN  /\ trick' = r.self
              /\ plays' = Append(plays, [card |-> card, ret |-> r.ret])
    /\ ret_finish' = None
    /\ prev_finish' = None
    /\ UNCHANGED idVars
    /\ UNCHANGED <<cmpVars, driverVars>>

Finish ==
    /\ ret_finish' = Some(finish(trick))
    /\ prev_finish' = ret_finish
    /\ trick' = finish_self(trick)
    /\ UNCHANGED <<plays>>
    /\ UNCHANGED idVars
    /\ UNCHANGED <<cmpVars, driverVars>>

Next == Play \/ Finish

Spec == Init /\ [][Next]_vars

----
(* PlayerId on its own: the constructors on any usize, then inc calls *)

IdInit ==
    /\ value \in 0..MaxValue
    /\ id_new = None
    /\ id_try = None
    /\ pid = None
    /\ pid0 = None
    /\ incs = 0
    /\ InitTrick
    /\ InitCmp
    /\ InitDriver

CallNew ==
    /\ id_new = None
    /\ id_new' = Some(PlayerId_new(value))
    /\ IF pid = None /\ IsSome(PlayerId_new(value))
       THEN pid' = PlayerId_new(value) /\ pid0' = PlayerId_new(value)
       ELSE UNCHANGED <<pid, pid0>>
    /\ UNCHANGED <<value, id_try, incs>>
    /\ UNCHANGED trickVars
    /\ UNCHANGED <<cmpVars, driverVars>>

CallTryFrom ==
    /\ id_try = None
    /\ id_try' = Some(try_from(value))
    /\ IF pid = None /\ try_from(value)[1] = "Ok"
       THEN pid' = Some(try_from(value)[2]) /\ pid0' = Some(try_from(value)[2])
       ELSE UNCHANGED <<pid, pid0>>
    /\ UNCHANGED <<value, id_new, incs>>
    /\ UNCHANGED trickVars
    /\ UNCHANGED <<cmpVars, driverVars>>

Inc ==
    /\ IsSome(pid)
    /\ incs < MaxIncs
    /\ pid' = Some(inc(Unwrap(pid)))
    /\ incs' = incs + 1
    /\ UNCHANGED <<value, id_new, id_try, pid0>>
    /\ UNCHANGED trickVars
    /\ UNCHANGED <<cmpVars, driverVars>>

IdNext == CallNew \/ CallTryFrom \/ Inc

IdSpec == IdInit /\ [][IdNext]_vars

----
(* finish on OngoingTricks built slot by slot, as the tests' strategy builds
   them: four cards, any of them equal or not *)

BuiltInit ==
    /\ \E cs \in [Seats -> Cards], f \in Seats :
          trick = [cards |-> [i \in Seats |-> Some(cs[i])],
                   first_to_play |-> f,
                   next_to_play |-> 0]
    /\ plays = <<>>
    /\ ret_finish = None
    /\ prev_finish = None
    /\ InitId
    /\ InitCmp
    /\ InitDriver

BuiltNext == Finish

BuiltSpec == BuiltInit /\ [][BuiltNext]_vars

----
(* Ord::cmp on any two of the 40 cards, and the example of finish's doc
   comment: four Hearts played into OngoingTrick::default() *)

DocCards ==
    << TressetteCard_new("Ace", "Hearts"),
       TressetteCard_new("Two", "Hearts"),
       TressetteCard_new("Three", "Hearts"),
       TressetteCard_new("Four", "Hearts") >>

OrdInit ==
    /\ cmp_self \in FullDeck
    /\ cmp_other \in FullDeck
    /\ ret_cmp = None
    /\ InitTrick
    /\ InitId
    /\ InitDriver

Compare ==
    /\ ret_cmp = None
    /\ ret_cmp' = Some(IF cmp_panics(cmp_self, cmp_other)
                       THEN "Panic"
                       ELSE cmp(cmp_self, cmp_other))
    /\ UNCHANGED <<cmp_self, cmp_other>>
    /\ UNCHANGED <<trickVars, idVars, driverVars>>

\* ongoing_trick.play(cards[k]).unwrap(), card after card
DocPlay ==
    /\ Len(plays) < Len(DocCards)
    /\ LET card == DocCards[Len(plays) + 1]
           r == play(trick, card)
       IN  /\ r.ret = "Ok"
           /\ trick' = r.self
           /\ plays' = Append(plays, [card |-> card, ret |-> r.ret])
    /\ ret_finish' = None
    /\ prev_finish' = None
    /\ UNCHANGED <<idVars, cmpVars, driverVars>>

OrdNext == Compare \/ DocPlay \/ Finish

OrdSpec == OrdInit /\ [][OrdNext]_vars

----
(* The match driver, main of tests/tressette.rs *)

TRICKS == 10

\* TressetteRules::is_completed: a side has reached the score to win
is_completed(sc, to_win) == sc[1] >= to_win \/ sc[2] >= to_win

DriverInit ==
    /\ d_pc = "while"
    /\ score = <<0, 0>>
    /\ score_to_win \in 1..MaxScoreToWin
    /\ trick_id = 0
    /\ player_count = 0
    /\ InitTrick
    /\ InitId
    /\ InitCmp

\* the test of the while loop; once it fails, the two asserts after the loop
DriverWhile ==
    /\ d_pc = "while"
    /\ IF ~is_completed(score, score_to_win)
       THEN /\ d_pc' = "for_trick"
            /\ trick_id' = 0
       ELSE /\ d_pc' = IF /\ score[1] # score[2]
                          /\ (score[1] >= score_to_win \/ score[2] >= score_to_win)
                       THEN "done"
                       ELSE "panicked"
            /\ UNCHANGED trick_id
    /\ UNCHANGED <<score, score_to_win, player_count>>
    /\ UNCHANGED <<trickVars, idVars, cmpVars>>

\* for trick_id in 0..TRICKS: a new OngoingTrick, or the end of the hand
DriverForTrick ==
    /\ d_pc = "for_trick"
    /\ IF trick_id < TRICKS
       THEN /\ d_pc' = "for_player"
            /\ player_count' = 0
       ELSE /\ d_pc' = "while"
            /\ UNCHANGED player_count
    /\ UNCHANGED <<score, score_to_win, trick_id>>
    /\ UNCHANGED <<trickVars, idVars, cmpVars>>

\* for player_count in 0..PLAYERS: next_to_play and playable are read, nothing
\* is played and score is not written
DriverForPlayer ==
    /\ d_pc = "for_player"
    /\ IF player_count < PLAYERS
       THEN /\ player_count' = player_count + 1
            /\ UNCHANGED <<d_pc, trick_id>>
       ELSE /\ d_pc' = "for_trick"
            /\ trick_id' = trick_id + 1
            /\ UNCHANGED player_count
    /\ UNCHANGED <<score, score_to_win>>
    /\ UNCHANGED <<trickVars, idVars, cmpVars>>

DriverNext == DriverWhile \/ DriverForTrick \/ DriverForPlayer

DriverSpec == DriverInit /\ [][DriverNext]_vars

\* the driver is one thread that never waits: it takes its next step
DriverFairSpec == DriverSpec /\ WF_vars(DriverNext)

----
(* Vocabulary of the properties *)

Occupied(t) == {i \in Seats : IsSome(t.cards[i])}
Full(t) == Occupied(t) = Seats

\* the play calls that returned Ok / Err
OkPlays == {k \in 1..Len(plays) : plays[k].ret = "Ok"}
ErrPlays == {k \in 1..Len(plays) : plays[k].ret = "Err"}

\* the cards handed to the first n play calls are pairwise distinct
DistinctUpTo(n) == \A i, j \in 1..n : i # j => plays[i].card # plays[j].card

\* the k-th play call was handed a card an earlier call was handed
Repeats(k) == \E j \in 1..(k - 1) : plays[j].card = plays[k].card

\* the step is a play call, and this is the call
IsPlayStep == plays' # plays
LastPlay == plays'[Len(plays')]

----
(* C1: in every state reached from OngoingTrick::new(s) by play calls, ok or
   failing, in any number, no two occupied slots hold equal cards. *)
C1_NoDuplicateCards ==
    \A i, j \in Seats :
        (i # j /\ IsSome(trick.cards[i]) /\ IsSome(trick.cards[j]))
            => trick.cards[i] # trick.cards[j]

\* a full trick that went through a rejected play and a play after it was full
C1_Witness ==
    /\ Len(plays) = MaxPlays
    /\ Full(trick)
    /\ ErrPlays # {}
    /\ Cardinality(OkPlays) >= 4

----
(* C2: after 4 pairwise distinct cards played into OngoingTrick::new(s),
   finish returns a Trick; the card of its taker has the suit of the card s
   played, which sits in slot first_to_play, and none of the 4 cards of that
   suit is greater than it under Ord::cmp. *)
C2_TakerLeadsAndIsMaximal ==
    (Len(plays) = 4 /\ DistinctUpTo(4) /\ IsSome(ret_finish)) =>
        /\ IsSome(Unwrap(ret_finish))
        /\ LET t == Unwrap(Unwrap(ret_finish))
               led == plays[1].card
           IN  /\ t.cards[trick.first_to_play] = led
               /\ suit(taken_with(t)) = suit(led)
               /\ \A k \in 1..4 :
                     suit(plays[k].card) = suit(led)
                         => cmp(plays[k].card, taken_with(t)) # "Greater"

\* a finished trick taken by a seat other than the leader, in which a card of
\* another suit outranks the card the trick was taken with
C2_Witness ==
    /\ Len(plays) = 4
    /\ DistinctUpTo(4)
    /\ IsSome(ret_finish)
    /\ IsSome(Unwrap(ret_finish))
    /\ LET t == Unwrap(Unwrap(ret_finish))
       IN  /\ taker(t) # trick.first_to_play
           /\ \E k \in 1..4 :
                 /\ suit(plays[k].card) # suit(taken_with(t))
                 /\ cmp(plays[k].card, taken_with(t)) = "Greater"

----
(* C3: in every state reached from OngoingTrick::new(s) by play calls, also
   calls made once all 4 slots are occupied, next_to_play equals
   (first_to_play + number of occupied slots) mod 4. *)
C3_NextIsFirstPlusOccupied ==
    trick.next_to_play
        = (trick.first_to_play + Cardinality(Occupied(trick))) % PLAYERS

----
(* C4: play(card) returns an error exactly when card already occupies a slot,
   and then the slots, first_to_play and next_to_play are all left as they
   were. *)
C4_ErrIffPresentAndUnchanged ==
    [][IsPlayStep =>
        /\ (LastPlay.ret = "Err") <=> (\E i \in Seats : trick.cards[i] = Some(LastPlay.card))
        /\ (LastPlay.ret = "Err") => (trick' = trick)]_vars

\* a rejected play on a trick that holds cards and still has an empty slot
C4_Witness ==
    /\ Len(plays) >= 2
    /\ plays[Len(plays)].ret = "Err"
    /\ Occupied(trick) # {}
    /\ ~Full(trick)

----
(* C5: in every state reached from OngoingTrick::new(s) by play calls, finish
   returns None if a slot is empty and Some(Trick) if all 4 are occupied: no
   taker before 4 plays have landed, no None on a full trick. *)
C5_FinishSomeIffFull ==
    IsSome(ret_finish) =>
        /\ (\E i \in Seats : trick.cards[i] = None) => Unwrap(ret_finish) = None
        /\ (\A i \in Seats : trick.cards[i] # None) => IsSome(Unwrap(ret_finish))
        /\ IsSome(Unwrap(ret_finish)) => Cardinality(OkPlays) >= 4

\* finish returned a Trick for a full trick holding cards of one suit only
C5_Witness ==
    /\ IsSome(ret_finish)
    /\ IsSome(Unwrap(ret_finish))
    /\ \A i, j \in Seats : suit(Unwrap(trick.cards[i])) = suit(Unwrap(trick.cards[j]))

----
(* C6, as stated: of 4 cards with a duplicate among them, played in order into
   a fresh OngoingTrick, exactly one play fails, the one that brings in the
   duplicate, and the trick never has all 4 slots occupied. *)
C6_FailsExactlyOnce ==
    (Len(plays) = 4 /\ ~DistinctUpTo(4)) =>
        /\ Cardinality(ErrPlays) = 1
        /\ \A k \in ErrPlays : Repeats(k)
        /\ ~Full(trick)

(* C6, amended: of at most 4 cards with a duplicate among them, played in
   order into a fresh OngoingTrick, the plays that fail are exactly those
   handed a card that an earlier play was handed: at least one, the first of
   them where the first duplicate comes in, and one more for every further
   repeat; the trick never has all 4 slots occupied. *)
C6_FailsAtEveryRepeat ==
    (Len(plays) <= 4 /\ ~DistinctUpTo(Len(plays))) =>
        /\ \A k \in 1..Len(plays) : (plays[k].ret = "Err") <=> Repeats(k)
        /\ ErrPlays # {}
        /\ ~Full(trick)

\* one card handed to three of the 4 plays: two plays failed
C6_Witness ==
    /\ Len(plays) = 4
    /\ Cardinality(ErrPlays) = 2
    /\ Cardinality(Occupied(trick)) = 2

----
(* C7: 4 pairwise distinct cards played into OngoingTrick::new(s) all succeed,
   the k-th (k = 0..3) lands in the slot of seat (s + k) mod 4, and after the
   fourth every slot is occupied and next_to_play equals first_to_play. *)
C7_PlaysLandInRotation ==
    (Len(plays) <= 4 /\ DistinctUpTo(Len(plays))) =>
        /\ \A k \in 0..(Len(plays) - 1) :
              /\ plays[k + 1].ret = "Ok"
              /\ trick.cards[(trick.first_to_play + k) % PLAYERS] = Some(plays[k + 1].card)
        /\ Len(plays) = 4 =>
              /\ \A i \in Seats : IsSome(trick.cards[i])
              /\ trick.next_to_play = trick.first_to_play

\* four distinct cards played starting at seat 2, so that the rotation wraps
C7_Witness ==
    /\ Len(plays) = 4
    /\ DistinctUpTo(4)
    /\ trick.first_to_play = 2
    /\ trick.cards[1] = Some(plays[4].card)

----
(* C8: PlayerId::new(v) is Some exactly when v < 4 and PlayerId::try_from(v)
   is Ok exactly when v < 4; the two agree on every v and yield the same id,
   the one wrapping v; neither yields a PlayerId for v >= 4. *)
C8_ConstructorsAcceptBelowFour ==
    /\ IsSome(id_new) =>
          /\ IsSome(Unwrap(id_new)) <=> value < 4
          /\ IsSome(Unwrap(id_new)) => Unwrap(Unwrap(id_new)) = value
    /\ IsSome(id_try) =>
          /\ Unwrap(id_try)[1] = "Ok" <=> value < 4
          /\ Unwrap(id_try)[1] = "Ok" => Unwrap(id_try)[2] = value
    /\ (IsSome(id_new) /\ IsSome(id_try)) =>
          /\ IsSome(Unwrap(id_new)) <=> Unwrap(id_try)[1] = "Ok"
          /\ IsSome(Unwrap(id_new)) => Unwrap(Unwrap(id_new)) = Unwrap(id_try)[2]
    /\ IsSome(pid) => value < 4

\* both constructors called on 4, the first value out of range
C8_Witness ==
    /\ value = 4
    /\ IsSome(id_new)
    /\ IsSome(id_try)

----
(* C9: inc takes a PlayerId s to (s + 1) mod 4, 3 wrapping to 0; after 4 inc
   calls, and after 4 * k of them for any k, the PlayerId is s again. *)
C9_IncIsSuccessorModFour ==
    IsSome(pid) =>
        /\ Unwrap(pid) = (Unwrap(pid0) + incs) % 4
        /\ (incs % 4 = 0) => pid = pid0

\* a PlayerId built as 3 and carried twice around the table
C9_Witness ==
    /\ pid0 = Some(3)
    /\ incs = 8
    /\ pid = Some(3)

----
(* C10: finish is a read-only, idempotent projection: a finish call leaves the
   slots, first_to_play and next_to_play as they were, and two finish calls on
   the same full OngoingTrick return Tricks equal in cards and taker. *)
C10_FinishReadOnlyIdempotent ==
    /\ [][(~IsPlayStep /\ <<ret_finish, prev_finish>>' # <<ret_finish, prev_finish>>)
            => trick' = trick]_vars
    /\ [](IsSome(prev_finish) =>
            /\ ret_finish = prev_finish
            /\ ret_finish = Some(finish(trick)))

\* finish called twice on a full trick
C10_Witness ==
    /\ Full(trick)
    /\ IsSome(prev_finish)
    /\ IsSome(ret_finish)
    /\ IsSome(Unwrap(ret_finish))

----
(* Vocabulary of the properties, continued *)

\* the play calls that returned Ok, in order
OkSeq == SelectSeq(plays, LAMBDA p : p.ret = "Ok")

\* finish has returned a Trick since the last play
HasTrick == IsSome(ret_finish) /\ IsSome(Unwrap(ret_finish))
TheTrick == Unwrap(Unwrap(ret_finish))

\* two slots of the trick hold equal cards
HasDuplicate(t) == \E i, j \in Seats : i # j /\ t.cards[i] = t.cards[j]

\* the order of the ranks as the claim gives it, lowest first
ClaimedOrder == <<"Four", "Five", "Six", "Seven", "Jack", "Knight", "King", "Ace", "Two", "Three">>
ClaimedPlace(r) == CHOOSE i \in 1..Len(ClaimedOrder) : ClaimedOrder[i] = r

----
(* C11: every Trick finish returns, on any state reached from
   OngoingTrick::new(s) by play calls, is a round in which every seat played
   exactly one card: exactly 4 plays succeeded, and the Trick's card at the
   seat of the k-th successful play is the card of that play. *)
C11_TrickIsOneCardPerSeat ==
    HasTrick =>
        /\ Len(OkSeq) = 4
        /\ \A k \in 0..3 :
              TheTrick.cards[(trick.first_to_play + k) % PLAYERS] = OkSeq[k + 1].card

----
(* C12: for two cards a, b of one suit, a < b exactly when the rank of a comes
   before the rank of b in 4 < 5 < 6 < 7 < Jack < Knight < King < Ace < 2 < 3;
   the rank lookup of cmp succeeds for each of the 10 ranks; and Ace, Two,
   Three, Four of Hearts played by seats 0, 1, 2, 3 with first_to_play = 0 are
   taken by seat 2. *)
C12_TressetteOrderAndDocExample ==
    /\ IsSome(ret_cmp) =>
          /\ Unwrap(ret_cmp) # "Panic"
          /\ suit(cmp_self) = suit(cmp_other) =>
                /\ (Unwrap(ret_cmp) = "Less")
                      <=> (ClaimedPlace(rank(cmp_self)) < ClaimedPlace(rank(cmp_other)))
                /\ (Unwrap(ret_cmp) = "Greater")
                      <=> (ClaimedPlace(rank(cmp_self)) > ClaimedPlace(rank(cmp_other)))
    /\ (Len(plays) = 4 /\ IsSome(ret_finish)) =>
          /\ IsSome(Unwrap(ret_finish))
          /\ taker(TheTrick) = 2

\* an Ace was found less than a Two of its suit, and the doc example is finished
C12_Witness ==
    /\ ret_cmp = Some("Less")
    /\ rank(cmp_self) = "Ace"
    /\ rank(cmp_other) = "Two"
    /\ suit(cmp_self) = suit(cmp_other)
    /\ Len(plays) = 4
    /\ HasTrick

----
(* C13: cards that are not of the leading suit never win: in a full trick
   without duplicates in which only the seat that played first holds a card of
   the leading suit, finish gives that seat as the taker, whatever the ranks
   of the other three cards. *)
C13_LoneLeaderTakes ==
    (/\ Full(trick)
     /\ IsSome(ret_finish)
     /\ \A i \in Seats \ {trick.first_to_play} :
           suit(Unwrap(trick.cards[i])) # suit(Unwrap(trick.cards[trick.first_to_play])))
        => /\ IsSome(Unwrap(ret_finish))
           /\ taker(TheTrick) = trick.first_to_play

\* the leader took a trick in which the other three cards are of another suit
\* and two of them outrank his
C13_Witness ==
    /\ Full(trick)
    /\ HasTrick
    /\ taker(TheTrick) = trick.first_to_play
    /\ \A i \in Seats \ {trick.first_to_play} :
          suit(Unwrap(trick.cards[i])) # suit(Unwrap(trick.cards[trick.first_to_play]))
    /\ Cardinality({i \in Seats :
          cmp(Unwrap(trick.cards[i]), Unwrap(trick.cards[trick.first_to_play])) = "Greater"}) = 2

----
(* C14: the order of the cards is strict and total, without ties: for two
   distinct cards a # b among the 40, a.cmp(b) is never Equal. *)
C14_NoTiesBetweenDistinctCards ==
    (IsSome(ret_cmp) /\ cmp_self # cmp_other) => Unwrap(ret_cmp) # "Equal"

----
(* C15: a full trick without duplicates has exactly one seat whose card is of
   the leading suit and maximal among the cards of the leading suit, and
   finish returns that seat. *)
C15_ExactlyOneTaker ==
    (Full(trick) /\ IsSome(ret_finish)) =>
        /\ IsSome(Unwrap(ret_finish))
        /\ LET t == TheTrick
               lead == suit(Unwrap(trick.cards[trick.first_to_play]))
               Maximal == {i \in Seats :
                             /\ suit(Unwrap(trick.cards[i])) = lead
                             /\ \A j \in Seats :
                                   suit(Unwrap(trick.cards[j])) = lead
                                      => cmp(Unwrap(trick.cards[j]), Unwrap(trick.cards[i])) # "Greater"}
           IN  /\ Cardinality(Maximal) = 1
               /\ Maximal = {taker(t)}

\* a trick taken by a seat other than the leader, holding a card of another
\* suit with the rank of the card it was taken with
C15_Witness ==
    /\ Full(trick)
    /\ HasTrick
    /\ taker(TheTrick) # trick.first_to_play
    /\ \E i \in Seats :
          /\ i # taker(TheTrick)
          /\ cmp(Unwrap(trick.cards[i]), taken_with(TheTrick)) = "Equal"

----
(* C16: a successful play(card) changes two things and no more: the slot at
   the next_to_play of before holds card, and next_to_play is one further
   modulo 4; first_to_play and the other three slots are as before. play
   tests neither suit nor ownership: a card the trick does not hold is
   accepted. *)
C16_PlayWritesOneSlotAndAdvances ==
    [][IsPlayStep =>
        /\ (\A i \in Seats : trick.cards[i] # Some(LastPlay.card)) => LastPlay.ret = "Ok"
        /\ LastPlay.ret = "Ok" =>
              /\ trick'.cards[trick.next_to_play] = Some(LastPlay.card)
              /\ trick'.next_to_play = (trick.next_to_play + 1) % PLAYERS
              /\ trick'.first_to_play = trick.first_to_play
              /\ \A i \in Seats \ {trick.next_to_play} : trick'.cards[i] = trick.cards[i]]_vars

\* the latest play was accepted and its card is not of the suit that was led
C16_Witness ==
    /\ Len(plays) >= 2
    /\ plays[Len(plays)].ret = "Ok"
    /\ ~Full(trick)
    /\ suit(plays[Len(plays)].card) # suit(Unwrap(trick.cards[trick.first_to_play]))

----
(* C17: every PlayerId there is, from Default, new or try_from, after any
   number of inc calls, as first_to_play or next_to_play of an OngoingTrick
   and as the taker of a Trick, is in 0..4, so every slot read or written
   through a PlayerId in play, finish and taken_with exists. *)
C17_PlayerIdsInRange ==
    /\ BuiltPlayerIds \subseteq 0..3
    /\ trick.first_to_play \in 0..3
    /\ trick.next_to_play \in 0..3
    /\ trick.first_to_play \in DOMAIN trick.cards
    /\ trick.next_to_play \in DOMAIN trick.cards
    /\ HasTrick =>
          /\ taker(TheTrick) \in 0..3
          /\ taker(TheTrick) \in DOMAIN TheTrick.cards

\* a trick led by seat 3, played into past the wrap and finished
C17_Witness ==
    /\ trick.first_to_play = 3
    /\ Len(plays) = MaxPlays
    /\ Cardinality(OkPlays) >= 5
    /\ HasTrick

----
(* C18: for an OngoingTrick with all four slots occupied, also one built slot
   by slot and not through play, finish returns None if the four cards hold a
   duplicate and Some(Trick) if they do not. *)
C18_FinishNoneOnDuplicates ==
    (Full(trick) /\ IsSome(ret_finish)) =>
        /\ HasDuplicate(trick) => Unwrap(ret_finish) = None
        /\ ~HasDuplicate(trick) => IsSome(Unwrap(ret_finish))

----
(* C19: once the driver's while loop has exited, a side's score is at least
   SCORE_TO_WIN and the two scores differ. Stated for the record: the driver
   never writes score, so no run leaves the loop and the statement is neither
   witnessed nor refuted. *)
C19_ExitedWithAWinner ==
    (d_pc \in {"done", "panicked"}) =>
        /\ score[1] >= score_to_win \/ score[2] >= score_to_win
        /\ score[1] # score[2]

----
(* C20: the match loop terminates: from score (0, 0) and a positive score to
   win, the driver reaches a state in which is_completed(score) holds and the
   loop has exited. *)
C20_MatchLoopTerminates ==
    <>(is_completed(score, score_to_win) /\ d_pc \in {"done", "panicked"})

====
